---- MODULE Spec2Model ----
(***************************************************************************)
(* A model of the request multiplexer of src/mux.go: the route registry    *)
(* (Handle, NotFound), the priority order kept by sort.Sort, and the       *)
(* dispatcher (ServeHTTP, cleanPath, match, possibleRoutes).               *)
(*                                                                         *)
(* A Go string is a sequence of one-character strings, so that split,      *)
(* strings.Trim, strings.Split, the key concatenation and s[0] are         *)
(* computed as the code computes them.                                     *)
(***************************************************************************)
EXTENDS Naturals, Sequences, FiniteSets, TLC

VARIABLES
    routes,           \* Muxer.routes: the route list, in slice order
    registered,       \* Muxer.registered: the keys of the registration map
    notFoundHandler,  \* Muxer.notFoundHandler
    nHandle,          \* the number of Handle calls made so far
    last,             \* the last call made on the Muxer and its outcome
    scen,             \* the scenario the environment draws its inputs from
    mu,               \* Muxer.mu: the writer and the readers of the RWMutex
    pc,               \* where each goroutine stands in its call
    cur,              \* the call each goroutine is making
    done              \* the Handle calls that returned or panicked, in order

conc == <<mu, pc, cur, done>>

vars == <<routes, registered, notFoundHandler, nHandle, last, scen, conc>>

\* ------------------------------------------------------------------ bounds

\* The number of Handle calls of a run.
MaxHandle == 3

\* The longest request path of the scenario that enumerates paths.
MaxPathLen == 3

\* ----------------------------------------------------------------- strings

\* The nil handler and the nil not-found hook.
nil == 0

\* The characters of the model in ascending byte order.
Ascii == <<"*", ".", "/", "0", "1", "2", ":", "A", "C", "E", "G", "N", "O",
           "P", "S", "T", "a", "b", "c", "x", "y">>

ByteOf(c) == CHOOSE i \in 1..Len(Ascii) : Ascii[i] = c

\* Go's s > t on strings: bytewise lexicographic, a proper prefix is smaller.
RECURSIVE StrGreater(_, _)
StrGreater(s, t) ==
    IF s = <<>> THEN FALSE
    ELSE IF t = <<>> THEN TRUE
    ELSE IF Head(s) # Head(t) THEN ByteOf(Head(s)) > ByteOf(Head(t))
    ELSE StrGreater(Tail(s), Tail(t))

\* strings.Index(s, c) + 1 : the first position of c in s, 0 when absent.
IndexOf(s, c) ==
    IF \E i \in 1..Len(s) : s[i] = c
    THEN CHOOSE i \in 1..Len(s) : s[i] = c /\ \A j \in 1..(i-1) : s[j] # c
    ELSE 0

\* strings.ToLower on the characters of the model.
LowerChar(c) ==
    CASE c = "A" -> "a"
      [] OTHER -> c

ToLower(s) == [i \in 1..Len(s) |-> LowerChar(s[i])]

RECURSIVE TrimLeft(_, _)
TrimLeft(s, c) ==
    IF s # <<>> /\ Head(s) = c THEN TrimLeft(Tail(s), c) ELSE s

RECURSIVE TrimRight(_, _)
TrimRight(s, c) ==
    IF s # <<>> /\ s[Len(s)] = c THEN TrimRight(SubSeq(s, 1, Len(s)-1), c) ELSE s

\* strings.Trim(s, c)
Trim(s, c) == TrimRight(TrimLeft(s, c), c)

\* strings.Split(s, c): Split("", c) is one empty string.
RECURSIVE Split(_, _)
Split(s, c) ==
    LET i == IndexOf(s, c)
    IN IF i = 0 THEN <<s>>
       ELSE <<SubSeq(s, 1, i-1)>> \o Split(SubSeq(s, i+1, Len(s)), c)

RECURSIVE Join(_, _)
Join(segs, c) ==
    IF segs = <<>> THEN <<>>
    ELSE IF Len(segs) = 1 THEN segs[1]
    ELSE segs[1] \o <<c>> \o Join(Tail(segs), c)


\* ------------------------------------------------------------------ routes

\* A route that accepts every method, whatever it was registered with.
methodSupportedAlways(p, method) == TRUE

\* methodSupported checks whether the given method is supported by the route.
methodSupported(p, method) == p.method = <<>> \/ p.method = method

\* notMatch that leaves the last segment of the route unchecked
\* (p.len-1 <= i for p.len-1 < i).
notMatchButLast(p, pathSeg, i) ==
    IF p.len <= i THEN FALSE
    ELSE LET s == p.segments[i]
         IN (Len(s) = 0 \/ s[1] # ":") /\ s # pathSeg

\* notMatch checks whether the segment at index i (from 1) does not match
\* the path segment pathSeg.
notMatch(p, pathSeg, i) ==
    IF p.len < i THEN FALSE
    ELSE LET s == p.segments[i]
         IN (Len(s) = 0 \/ s[1] # ":") /\ s # pathSeg

\* priority panics (index out of range at s[0]) on an empty segment that is
\* not the first one.
priorityPanics(p) ==
    /\ p.segments[1] # <<>>
    /\ \E i \in 1..Len(p.segments) : p.segments[i] = <<>>

\* priority computes the priority of the route: "0" for the slash pattern,
\* else one character per segment, '1' for a dynamic and '2' for a static one.
priority(p) ==
    IF p.segments[1] = <<>> THEN <<"0">>
    ELSE [i \in 1..Len(p.segments) |->
             IF p.segments[i] # <<>> /\ p.segments[i][1] = ":" THEN "1" ELSE "2"]

\* byPriority.Less
Less(a, i, j) == StrGreater(priority(a[i]), priority(a[j]))

LessPanics(a, i, j) == priorityPanics(a[i]) \/ priorityPanics(a[j])

\* byPriority.Swap
Swap(a, i, j) == [a EXCEPT ![i] = a[j], ![j] = a[i]]

\* sort.Sort(byPriority(m.routes)) on a slice of fewer than 7 elements is an
\* insertion sort: for i, for j := i; j > a && Less(j, j-1); j-- { Swap }.
\* A panic of Less leaves the swaps made so far in place.
RECURSIVE insertInner(_, _)
insertInner(a, j) ==
    IF j <= 1 THEN [routes |-> a, panicked |-> FALSE]
    ELSE IF LessPanics(a, j, j-1) THEN [routes |-> a, panicked |-> TRUE]
    ELSE IF Less(a, j, j-1) THEN insertInner(Swap(a, j, j-1), j-1)
    ELSE [routes |-> a, panicked |-> FALSE]

RECURSIVE insertOuter(_, _)
insertOuter(a, i) ==
    IF i > Len(a) THEN [routes |-> a, panicked |-> FALSE]
    ELSE LET r == insertInner(a, i)
         IN IF r.panicked THEN r ELSE insertOuter(r.routes, i+1)

sortByPriority(a) == insertOuter(a, 2)

\* The sort.Sort of the toolchain that builds the program.  From Go 1.19 on
\* (pdqsort) a slice of at most 12 elements is sorted by insertion alone;
\* up to Go 1.18 (quickSort) a slice of 7 to 12 elements first gets a pass
\* of gap 6, for i := a + 6; i < b; i++ { if Less(i, i-6) { Swap(i, i-6) } },
\* and then the insertion sort.  Neither promises a stable order.
SortBuilds == {"pdqsort", "quickSort"}

RECURSIVE shellPass(_, _)
shellPass(a, i) ==
    IF i > Len(a) THEN [routes |-> a, panicked |-> FALSE]
    ELSE IF LessPanics(a, i, i-6) THEN [routes |-> a, panicked |-> TRUE]
    ELSE IF Less(a, i, i-6) THEN shellPass(Swap(a, i, i-6), i+1)
    ELSE shellPass(a, i+1)

sortSort(build, a) ==
    IF build = "quickSort" /\ Len(a) >= 7
    THEN LET g == shellPass(a, 7)
         IN IF g.panicked THEN g ELSE sortByPriority(g.routes)
    ELSE sortByPriority(a)

\* The parameter names with their colon kept (s[0:] for s[1:]).
paramsOfWithColon(segments) ==
    LET dyn == {i \in 1..Len(segments) :
                   Len(segments[i]) > 0 /\ segments[i][1] = ":"}
    IN [i \in dyn |-> segments[i]]

\* The parameter names of a path: segment index -> name, for the segments
\* that begin with ':'.
paramsOf(segments) ==
    LET dyn == {i \in 1..Len(segments) :
                   Len(segments[i]) > 0 /\ segments[i][1] = ":"}
    IN [i \in dyn |-> Tail(segments[i])]

newRoute(key, method, path) ==
    LET segments == Split(path, "/")
    IN [key             |-> key,
        method          |-> method,
        segments        |-> segments,
        len             |-> Len(segments),
        params          |-> paramsOf(segments),
        slashHandler    |-> nil,
        nonSlashHandler |-> nil]

\* A split that refuses every pattern that does not begin with a slash.
splitPanicsUnlessRooted(pattern) == pattern[1] # "/"

\* split splits the pattern, separating it into host and path; it panics
\* when the pattern has no slash.
splitPanics(pattern) == IndexOf(pattern, "/") = 0

split(pattern) ==
    LET pStart == IndexOf(pattern, "/")
    IN [host |-> ToLower(SubSeq(pattern, 1, pStart-1)),
        path |-> SubSeq(pattern, pStart, Len(pattern))]

\* The index of the route registered under key.
routeIndex(rs, key) == CHOOSE i \in 1..Len(rs) : rs[i].key = key

\* A turn that appends a route without looking the key up.
registerOneAppending(st, method, host, path, endsInSlash, handler) ==
    LET r == newRoute((method \o host \o path), method, path)
    IN [routes     |-> Append(st.routes,
                              IF endsInSlash THEN [r EXCEPT !.slashHandler = handler]
                              ELSE [r EXCEPT !.nonSlashHandler = handler]),
        registered |-> st.registered \cup {(method \o host \o path)}]

\* The first half of a turn of Handle's loop: the route of the key is looked
\* up and, if there is none, made, appended and registered.
lookupOrCreate(st, method, host, path) ==
    LET key == method \o host \o path
    IN IF key \in st.registered THEN st
       ELSE [routes     |-> Append(st.routes, newRoute(key, method, path)),
             registered |-> st.registered \cup {key}]

\* The second half: the handler is stored in the slot of the route.
setSlot(st, method, host, path, endsInSlash, handler) ==
    LET k == routeIndex(st.routes, method \o host \o path)
    IN [st EXCEPT !.routes[k] =
           IF endsInSlash THEN [@ EXCEPT !.slashHandler = handler]
                          ELSE [@ EXCEPT !.nonSlashHandler = handler]]

\* One turn of Handle's loop over the methods.
registerOne(st, method, host, path, endsInSlash, handler) ==
    LET key == method \o host \o path
        st1 == IF key \in st.registered THEN st
               ELSE [routes     |-> Append(st.routes, newRoute(key, method, path)),
                     registered |-> st.registered \cup {key}]
        k   == routeIndex(st1.routes, key)
    IN [st1 EXCEPT !.routes[k] =
            IF endsInSlash THEN [@ EXCEPT !.slashHandler = handler]
                           ELSE [@ EXCEPT !.nonSlashHandler = handler]]

RECURSIVE registerAll(_, _, _, _, _, _)
registerAll(st, methods, host, path, endsInSlash, handler) ==
    IF methods = <<>> THEN st
    ELSE registerAll(registerOne(st, Head(methods), host, path, endsInSlash, handler),
                     Tail(methods), host, path, endsInSlash, handler)

\* The Muxer after Handle(pattern, handler, methods...), and whether the
\* call panicked.
handleResult(build, rs, reg, pattern, handler, methods) ==
    IF pattern = <<>> \/ splitPanics(pattern)
    THEN [routes |-> rs, registered |-> reg, panicked |-> TRUE]
    ELSE LET hp          == split(pattern)
             endsInSlash == hp.path[Len(hp.path)] = "/"
             path        == Trim(hp.path, "/")
             ms          == IF Len(methods) = 0 THEN << <<>> >> ELSE methods
             st          == registerAll([routes |-> rs, registered |-> reg],
                                        ms, hp.host, path, endsInSlash, handler)
             sorted      == sortSort(build, st.routes)
         IN [routes     |-> sorted.routes,
             registered |-> st.registered,
             panicked   |-> sorted.panicked]

\* --------------------------------------------------------------- matching

\* Candidates without the shorter routes that have a slash-handler.
isCandidateExactOnly(r, slen, endsInSlash) ==
    /\ r.len = slen
    /\ \/ endsInSlash /\ r.slashHandler # nil
       \/ ~endsInSlash /\ r.nonSlashHandler # nil

\* Candidates of the path's length whatever their slots hold.
isCandidateAnySlot(r, slen, endsInSlash) ==
    \/ r.len = slen
    \/ r.len < slen /\ r.slashHandler # nil

\* possibleRoutes: the candidates for a path of slen segments, as indexes
\* into the route list, in the order of the list.
isCandidate(r, slen, endsInSlash) ==
    \/ /\ r.len = slen
       /\ \/ endsInSlash /\ r.slashHandler # nil
          \/ ~endsInSlash /\ r.nonSlashHandler # nil
    \/ r.len < slen /\ r.slashHandler # nil

RECURSIVE possibleFrom(_, _, _, _)
possibleFrom(rs, k, slen, endsInSlash) ==
    IF k > Len(rs) THEN <<>>
    ELSE (IF isCandidate(rs[k], slen, endsInSlash) THEN <<k>> ELSE <<>>)
         \o possibleFrom(rs, k+1, slen, endsInSlash)

possibleRoutes(rs, slen, endsInSlash) == possibleFrom(rs, 1, slen, endsInSlash)

\* One turn of match's LOOP, at segment index i: every candidate that does
\* not match there is set to nil (0) and candLen is decremented for it.
eliminateAt(rs, w, segments, i) ==
    LET out == {k \in 1..Len(w.candidates) :
                   w.candidates[k] # 0 /\ notMatch(rs[w.candidates[k]], segments[i], i)}
    IN [candidates |-> [k \in 1..Len(w.candidates) |->
                           IF k \in out THEN 0 ELSE w.candidates[k]],
        candLen    |-> w.candLen - Cardinality(out),
        exit       |-> i]

\* match's LOOP: for i := slen-1; i >= 0; i--, left when candLen is 0.
RECURSIVE walk(_, _, _, _)
walk(rs, w, segments, i) ==
    IF i < 1 THEN w
    ELSE LET w1 == eliminateAt(rs, w, segments, i)
         IN IF w1.candLen = 0 THEN w1 ELSE walk(rs, w1, segments, i-1)

\* The values of (candidates, candLen) at the end of every turn of match's
\* LOOP, and before the first.
RECURSIVE walkStages(_, _, _, _)
walkStages(rs, w, segments, i) ==
    IF i < 1 THEN {w}
    ELSE LET w1 == eliminateAt(rs, w, segments, i)
         IN {w, w1} \cup (IF w1.candLen = 0 THEN {}
                          ELSE walkStages(rs, w1, segments, i-1))

\* argsMap: the request parameter values of a route.  Go ranges over the map
\* p.params in no fixed order, so a name used at two indexes is bound to the
\* value of either.
argsMaps(p, pathSegs) ==
    LET slen  == Len(pathSegs)
        bound == {i \in DOMAIN p.params : i <= slen}
        names == {p.params[i] : i \in bound}
        vals  == {pathSegs[i] : i \in bound}
    IN {m \in [names -> vals] :
           \A n \in names : \E i \in bound : p.params[i] = n /\ m[n] = pathSegs[i]}

\* The first surviving candidate that supports the method, 0 when none.
firstSupported(rs, candidates, method) ==
    LET ok == {k \in 1..Len(candidates) :
                  candidates[k] # 0 /\ methodSupported(rs[candidates[k]], method)}
    IN IF ok = {} THEN 0
       ELSE candidates[CHOOSE k \in ok : \A j \in ok : k <= j]

\* The slot chosen by the lengths alone.
chosenSlotByLength(c, slen, endsInSlash) ==
    IF c.len < slen THEN "slash" ELSE "nonSlash"

\* The handler slot match reads from the selected route c: the slash-handler
\* if the route is shorter than the path or the path ends in a slash.
chosenSlot(c, slen, endsInSlash) ==
    IF c.len < slen \/ endsInSlash THEN "slash" ELSE "nonSlash"

slotHandler(c, slot) ==
    IF slot = "slash" THEN c.slashHandler ELSE c.nonSlashHandler

\* match panics on the empty path (path[len(path)-1]).
matchPanics(path) == path = <<>>

\* match: the route selected for (method, path) (its index, 0 when none), the
\* handler, whether the outcome is a method mismatch, and the walk's result.
match(rs, method, path) ==
    LET endsInSlash == path[Len(path)] = "/"
        segments    == Split(Trim(path, "/"), "/")
        slen        == Len(segments)
        cands       == possibleRoutes(rs, slen, endsInSlash)
        w           == walk(rs, [candidates |-> cands, candLen |-> Len(cands),
                                 exit |-> slen + 1], segments, slen)
        c           == IF w.candLen > 0 THEN firstSupported(rs, w.candidates, method)
                       ELSE 0
    IN [route          |-> c,
        h              |-> IF c = 0 THEN nil
                           ELSE slotHandler(rs[c], chosenSlot(rs[c], slen, endsInSlash)),
        segments       |-> segments,
        endsInSlash    |-> endsInSlash,
        methodMismatch |-> w.candLen > 0 /\ c = 0,
        walked         |-> w]

\* A possibleRoutes that filters m.routes in place (routes := m.routes[:0]):
\* the candidates overwrite the head of the list and the LOOP's nil writes
\* take the eliminated ones out of it.
matchStoreInPlace(rs, m) ==
    LET kept == SelectSeq(m.walked.candidates, LAMBDA c : c # 0)
    IN [k \in 1..Len(kept) |-> rs[kept[k]]]
       \o SubSeq(rs, Len(m.walked.candidates) + 1, Len(rs))

\* The route list after match.  possibleRoutes appends the candidates to a
\* slice it makes (make([]*route, 0, len(m.routes))) and the LOOP writes its
\* nils to that slice; argsMap fills a map it makes.  Nothing is written to
\* m.routes or to a route.
matchStore(rs, m) == rs

\* ------------------------------------------------------------ cleanPath

\* path.Clean on a rooted path, one element at a time: an empty element and
\* "." are dropped, ".." removes the element before it (none at the root).
RECURSIVE cleanElems(_, _)
cleanElems(elems, out) ==
    IF elems = <<>> THEN out
    ELSE LET e == Head(elems)
         IN IF e = <<>> \/ e = <<".">> THEN cleanElems(Tail(elems), out)
            ELSE IF e = <<".", ".">>
                 THEN cleanElems(Tail(elems),
                                 IF out = <<>> THEN out ELSE SubSeq(out, 1, Len(out)-1))
            ELSE cleanElems(Tail(elems), Append(out, e))

pathClean(p) == <<"/">> \o Join(cleanElems(Split(p, "/"), <<>>), "/")

\* A cleanPath that does not put the trailing slash back.
cleanPathNoSlashBack(p0) ==
    IF p0 = <<>> THEN <<"/">>
    ELSE pathClean(IF p0[1] # "/" THEN <<"/">> \o p0 ELSE p0)

\* cleanPath returns the canonical path for p, eliminating . and .. elements.
cleanPath(p0) ==
    IF p0 = <<>> THEN <<"/">>
    ELSE LET p  == IF p0[1] # "/" THEN <<"/">> \o p0 ELSE p0
             np == pathClean(p)
         IN IF p[Len(p)] = "/" /\ np # <<"/">> THEN np \o <<"/">> ELSE np

\* ---------------------------------------------------------- the redirect

\* url.String() on a URL that has only a path: the path with the characters
\* that cannot stand in a path percent-encoded.
escapeChar(c) ==
    CASE c = "%" -> <<"%", "2", "5">>
      [] c = "?" -> <<"%", "3", "F">>
      [] OTHER   -> <<c>>

RECURSIVE urlString(_)
urlString(path) ==
    IF path = <<>> THEN <<>>
    ELSE escapeChar(Head(path)) \o urlString(Tail(path))

\* The directory of path.Split: the path up to and with its last slash.
RECURSIVE olddir(_)
olddir(path) ==
    IF path = <<>> \/ path[Len(path)] = "/" THEN path
    ELSE olddir(SubSeq(path, 1, Len(path) - 1))

\* The Location that http.Redirect sends for a URL without scheme and host:
\* a relative URL is made absolute against the request's path, the query is
\* set aside, and the rest is cleaned with its trailing slash preserved.
httpRedirect(url, reqPath) ==
    LET oldpath == IF reqPath = <<>> THEN <<"/">> ELSE reqPath
        abs     == IF url = <<>> \/ url[1] # "/" THEN olddir(oldpath) \o url
                   ELSE url
        q       == IndexOf(abs, "?")
        u       == IF q = 0 THEN abs ELSE SubSeq(abs, 1, q - 1)
        query   == IF q = 0 THEN <<>> ELSE SubSeq(abs, q, Len(abs))
        np      == pathClean(u)
        cleaned == IF u # <<>> /\ u[Len(u)] = "/" /\ np[Len(np)] # "/"
                   THEN np \o <<"/">> ELSE np
    IN cleaned \o query

\* The Location of the redirect that ServeHTTP sends for a request path.
redirectLocation(path) == httpRedirect(urlString(cleanPath(path)), path)

\* The path of a URL as the server of the next request parses it: what
\* stands before the query, percent-decoded.
RECURSIVE unescape(_)
unescape(s) ==
    IF s = <<>> THEN <<>>
    ELSE IF s[1] = "%" /\ Len(s) >= 3
    THEN (CASE SubSeq(s, 2, 3) = <<"2", "5">> -> <<"%">>
            [] SubSeq(s, 2, 3) = <<"3", "F">> -> <<"?">>
            [] OTHER -> SubSeq(s, 1, 3))
         \o unescape(SubSeq(s, 4, Len(s)))
    ELSE <<s[1]>> \o unescape(Tail(s))

urlParsePath(url) ==
    LET q == IndexOf(url, "?")
    IN unescape(IF q = 0 THEN url ELSE SubSeq(url, 1, q - 1))

\* The path of the request that follows the redirect of a request path.
redirectTarget(path) == urlParsePath(redirectLocation(path))

\* --------------------------------------------------------------- ServeHTTP

GET     == <<"G", "E", "T">>
POST    == <<"P", "O", "S", "T">>
OPTIONS == <<"O", "P", "T", "I", "O", "N", "S">>
CONNECT == <<"C", "O", "N", "N", "E", "C", "T">>

StatusOK               == 200
StatusMovedPermanently == 301
StatusBadRequest       == 400
StatusNotFound         == 404
StatusMethodNotAllowed == 405

\* What a ServeHTTP call did: the response's kind and status, the handler
\* or hook it invoked and with what, the route it selected (its index, 0
\* when none) and whether it called match.
NoOutcome ==
    [kind |-> "none", status |-> 0, handler |-> nil, args |-> <<>>, hook |-> nil,
     methodMismatch |-> FALSE, location |-> <<>>, route |-> 0, matched |-> FALSE]

\* A redirect of every method, CONNECT too.
needsRedirectAnyMethod(req) == cleanPath(req.path) # req.path

\* A path that is not canonical is redirected, but not for CONNECT.
needsRedirect(req) == req.method # CONNECT /\ cleanPath(req.path) # req.path

\* A default response that is 404 whatever the flag.
defaultStatusNotFound(methodMismatch) == StatusNotFound

\* The default response tells a method mismatch from a path not found.
defaultStatus(methodMismatch) ==
    IF methodMismatch THEN StatusMethodNotAllowed ELSE StatusNotFound

\* The responses ServeHTTP can give to req = [method, path, star] (star: the
\* request-target is "*"): one, but for the order in which argsMap binds a
\* repeated parameter name.
serve(rs, hook, req) ==
    IF req.star
    THEN {[NoOutcome EXCEPT !.kind = "badRequest", !.status = StatusBadRequest]}
    ELSE IF needsRedirect(req)
    THEN {[NoOutcome EXCEPT !.kind = "redirect", !.status = StatusMovedPermanently,
                            !.location = cleanPath(req.path)]}
    ELSE IF matchPanics(req.path)
    THEN {[NoOutcome EXCEPT !.kind = "panic", !.matched = TRUE]}
    ELSE LET m == match(rs, req.method, req.path)
         IN IF m.h # nil
            THEN {[NoOutcome EXCEPT !.kind = "handler", !.status = StatusOK,
                                    !.handler = m.h, !.args = a, !.route = m.route,
                                    !.matched = TRUE] :
                     a \in argsMaps(rs[m.route], m.segments)}
            ELSE IF hook # nil
            THEN {[NoOutcome EXCEPT !.kind = "hook", !.hook = hook,
                                    !.methodMismatch = m.methodMismatch,
                                    !.matched = TRUE]}
            ELSE {[NoOutcome EXCEPT !.kind = "default",
                                    !.status = defaultStatus(m.methodMismatch),
                                    !.methodMismatch = m.methodMismatch,
                                    !.matched = TRUE]}

\* The route list after ServeHTTP: what match left of it, when match ran.
routesAfterServe(rs, req) ==
    IF req.star \/ needsRedirect(req) \/ matchPanics(req.path) THEN rs
    ELSE matchStore(rs, match(rs, req.method, req.path))

\* --------------------------------------------------------------- scenarios

\* The patterns and request paths of the scenarios, character by character.
pRoot   == <<"/">>
pA      == <<"/", "a">>
pASl    == <<"/", "a", "/">>
pB      == <<"/", "b">>
pX      == <<"/", ":", "x">>
pY      == <<"/", ":", "y">>
pXSl    == <<"/", ":", "x", "/">>
pAB     == <<"/", "a", "/", "b">>
pABSl   == <<"/", "a", "/", "b", "/">>
pBA     == <<"/", "b", "/", "a">>
pBB     == <<"/", "b", "/", "b">>
pXB     == <<"/", ":", "x", "/", "b">>
pAY     == <<"/", "a", "/", ":", "y">>
pXX     == <<"/", ":", "x", "/", ":", "x">>
pColon  == <<"/", ":">>
pAEB    == <<"/", "a", "/", "/", "b">>
pEmpty  == <<>>
pNoSl   == <<"a">>
pHostB  == <<"a", "/", "b">>
pHOSTB  == <<"A", "/", "b">>
pAb     == <<"/", "a", "b">>
pGET    == <<"/", "G", "E", "T">>
pGETSl  == <<"/", "G", "E", "T", "/">>
pGETA   == <<"/", "G", "E", "T", "/", "a">>
pSlSl   == <<"/", "/">>
pABC    == <<"/", "a", "/", "b", "/", "c">>
pAUpB   == <<"/", "a", "/", ".", ".", "/", "b">>
pADotB  == <<"/", "a", "/", ".", "/", "b">>
pAUpA   == <<"/", "a", "/", ".", ".", "/", "a">>
pUp     == <<"/", ".", ".">>
pStar   == <<"*">>

Requests(methods, paths) ==
    {[method |-> m, path |-> p, star |-> FALSE] : m \in methods, p \in paths}

\* A request whose request-target is "*": its URL path is "*" too.
StarRequests(methods) ==
    {[method |-> m, path |-> pStar, star |-> TRUE] : m \in methods}

\* Same-length patterns that differ in where they are static.
ScenSpecificity ==
    [name        |-> "specificity",
     patterns    |-> {pA, pX, pAY, pXB},
     handlers    |-> {"new"},
     methodLists |-> {<<>>},
     hooks       |-> {},
     build       |-> "pdqsort",
     requests    |-> Requests({GET}, {pA, pB, pAB, pBA, pBB, pASl})]

\* A shorter pattern with a slash-handler beside longer ones; slots cleared.
ScenPrefix ==
    [name        |-> "prefix",
     patterns    |-> {pA, pASl, pAB, pXB},
     handlers    |-> {"new", "nil"},
     methodLists |-> {<<>>},
     hooks       |-> {},
     build       |-> "pdqsort",
     requests    |-> Requests({GET}, {pA, pASl, pAB, pABSl, pBB, pABC})]

\* One path registered for several method lists; slots cleared.
ScenMethods ==
    [name        |-> "methods",
     patterns    |-> {pA},
     handlers    |-> {"new", "nil"},
     methodLists |-> {<<>>, <<GET>>, <<POST>>, <<GET, POST>>},
     hooks       |-> {},
     build       |-> "pdqsort",
     requests    |-> Requests({GET, POST, CONNECT}, {pA, pASl, pB})]

\* The slash pattern, and a path that spells a method.
ScenRoot ==
    [name        |-> "root",
     patterns    |-> {pRoot, pGET},
     handlers    |-> {"new"},
     methodLists |-> {<<>>, <<GET>>},
     hooks       |-> {},
     build       |-> "pdqsort",
     requests    |-> Requests({GET, POST, CONNECT},
                              {pRoot, pSlSl, pGET, pGETSl, pGETA})]

\* A method name as a path, registered and cleared: the keys of /GET/ (any
\* method) and of / (GET) are the same string.
ScenCollide ==
    [name        |-> "collide",
     patterns    |-> {pRoot, pGETSl},
     handlers    |-> {"new", "nil"},
     methodLists |-> {<<>>, <<GET>>},
     hooks       |-> {},
     build       |-> "pdqsort",
     requests    |-> Requests({GET, POST}, {pRoot, pGET, pGETSl})]

\* Parameter names: repeated, empty, in a shorter pattern.
ScenParams ==
    [name        |-> "params",
     patterns    |-> {pXX, pXSl, pAY, pColon},
     handlers    |-> {"new"},
     methodLists |-> {<<>>},
     hooks       |-> {},
     build       |-> "pdqsort",
     requests    |-> Requests({GET}, {pA, pAB, pBA, pABSl, pABC})]

\* Patterns Handle panics on, at once or in the sort.
ScenBroken ==
    [name        |-> "broken",
     patterns    |-> {pEmpty, pAEB, pX, pA},
     handlers    |-> {"new"},
     methodLists |-> {<<>>},
     hooks       |-> {},
     build       |-> "pdqsort",
     requests    |-> Requests({GET}, {pA, pB}) \cup Requests({CONNECT}, {pAEB})]

\* Seven routes and more, of which the first six have the lowest priority,
\* under the sort of either build.
ScenSort(build) ==
    [name        |-> "sort",
     patterns    |-> {pX, pY, pA},
     handlers    |-> {"new"},
     methodLists |-> {<<>>, <<GET, POST, OPTIONS>>},
     hooks       |-> {},
     build       |-> build,
     requests    |-> Requests({GET}, {pA, pB})]

\* Patterns with a host part.
ScenHosts ==
    [name        |-> "hosts",
     patterns    |-> {pHostB, pHOSTB, pB, pAb},
     handlers    |-> {"new"},
     methodLists |-> {<<>>},
     hooks       |-> {},
     build       |-> "pdqsort",
     requests    |-> Requests({GET}, {pB, pAb, pAB})]

\* Paths that are not canonical, CONNECT, the request-target "*", and the
\* not-found hook.
ScenCanon ==
    [name        |-> "canon",
     patterns    |-> {pA, pNoSl},
     handlers    |-> {"new"},
     methodLists |-> {<<GET>>},
     hooks       |-> {nil, 1, 2},
     build       |-> "pdqsort",
     requests    |-> Requests({GET, POST, CONNECT},
                              {pA, pASl, pB, pEmpty, pNoSl, pSlSl, pAEB, pAUpB,
                               pAUpA, pADotB, pUp})
                     \cup StarRequests({OPTIONS, CONNECT})]

\* Every path of at most MaxPathLen characters, longer ones with "..", "."
\* and characters that a URL escapes, and the targets of their redirects.
PathChars == {"/", ".", "a"}

ShortPaths == UNION {[1..n -> PathChars] : n \in 0..MaxPathLen}

pSlSlASl == <<"/", "/", "a", "/">>
pNoSlDotSl == <<"a", "/", ".", "/">>
pAUpSl   == <<"/", "a", "/", ".", ".", "/">>
pAQUpB   == <<"/", "a", "?", "/", ".", ".", "/", "b">>
pPctDotSl == <<"/", "%", "/", ".", "/">>
pQ       == <<"/", "a", "?", "b">>

LongPaths == {pSlSlASl, pNoSlDotSl, pAUpA, pAUpB, pADotB, pAUpSl, pAQUpB,
              pPctDotSl, pQ}

ScenClean ==
    [name        |-> "clean",
     patterns    |-> {pASl},
     handlers    |-> {"new"},
     methodLists |-> {<<>>},
     hooks       |-> {},
     build       |-> "pdqsort",
     requests    |-> Requests({GET},
                              (ShortPaths \cup LongPaths)
                              \cup {redirectTarget(p) :
                                       p \in ShortPaths \cup LongPaths})]

Scenarios == {ScenSpecificity, ScenPrefix, ScenMethods, ScenRoot, ScenCollide,
              ScenParams,
              ScenBroken, ScenHosts, ScenCanon, ScenClean}
             \cup {ScenSort(build) : build \in SortBuilds}

\* Handle and a failing match, one after the other and at once.
ScenConc ==
    [name        |-> "concurrent",
     patterns    |-> {pX, pA, pAEB},
     handlers    |-> {"new"},
     methodLists |-> {<<>>, <<GET, POST>>},
     hooks       |-> {},
     build       |-> "pdqsort",
     requests    |-> Requests({GET}, {pA}) \cup Requests({CONNECT}, {pEmpty})]

\* ------------------------------------------------------------ sync.RWMutex

\* The goroutines: one that registers and two that serve.
Registrars == {"reg"}
Servers    == {"srv1", "srv2"}
Procs      == Registrars \cup Servers

\* The zero RWMutex.
Free == [w |-> "none", held |-> FALSE, readers |-> {}]

\* Lock: the caller takes the writers' mutex, which holds new readers back,
\* and has the lock when the readers that hold it have left.
canLockBegin(m)      == m.w = "none"
lockBegin(m, p)      == [m EXCEPT !.w = p]
canLockAcquire(m, p) == m.w = p /\ ~m.held /\ m.readers = {}
lockAcquire(m)       == [m EXCEPT !.held = TRUE]
unlock(m)            == [m EXCEPT !.w = "none", !.held = FALSE]

\* RLock waits while a writer holds or awaits the lock.
canRLock(m)   == m.w = "none"
rLock(m, p)   == [m EXCEPT !.readers = @ \cup {p}]
rUnlock(m, p) == [m EXCEPT !.readers = @ \ {p}]

\* ----------------------------------------------------------- specification

\* The handlers held by the slots of a route list.
slotHandlers(rs) ==
    {rs[i].slashHandler : i \in 1..Len(rs)} \cup
    {rs[i].nonSlashHandler : i \in 1..Len(rs)}

Init ==
    /\ routes = <<>>
    /\ registered = {}
    /\ notFoundHandler = nil
    /\ nHandle = 0
    /\ last = [op |-> "NewMuxer", arg |-> <<>>, out |-> NoOutcome]
    /\ scen \in Scenarios
    /\ mu = Free
    /\ pc = [p \in Procs |-> "idle"]
    /\ cur = [p \in Procs |-> <<>>]
    /\ done = <<>>

\* Handle(pattern, handler, methods...): the handler is a new one (the
\* number of the call names it) or nil.
Handle ==
    /\ nHandle < MaxHandle
    /\ \E pattern \in scen.patterns, hsel \in scen.handlers,
          methods \in scen.methodLists :
          LET handler == IF hsel = "new" THEN nHandle + 1 ELSE nil
              r       == handleResult(scen.build, routes, registered, pattern,
                                      handler, methods)
          IN /\ routes' = r.routes
             /\ registered' = r.registered
             /\ nHandle' = nHandle + 1
             /\ last' = [op  |-> "Handle",
                         arg |-> [pattern |-> pattern, handler |-> handler,
                                  methods |-> methods],
                         out |-> [panicked |-> r.panicked,
                                  replaced |-> (slotHandlers(routes)
                                                  \ slotHandlers(r.routes)) \ {nil}]]
    /\ UNCHANGED <<notFoundHandler, scen, conc>>

\* NotFound(h)
NotFound ==
    /\ \E h \in scen.hooks :
          /\ notFoundHandler' = h
          /\ last' = [op |-> "NotFound", arg |-> h, out |-> NoOutcome]
    /\ UNCHANGED <<routes, registered, nHandle, scen, conc>>

\* ServeHTTP(w, r)
ServeHTTP ==
    /\ \E req \in scen.requests :
          /\ \E out \in serve(routes, notFoundHandler, req) :
                last' = [op |-> "ServeHTTP", arg |-> req, out |-> out]
          /\ routes' = routesAfterServe(routes, req)
    /\ UNCHANGED <<registered, notFoundHandler, nHandle, scen, conc>>

Next == Handle \/ NotFound \/ ServeHTTP

Spec == Init /\ [][Next]_vars

\* ------------------------------------------- the calls, statement by statement

\* m.mu.Lock() of Handle, begun: the call and its arguments.
BeginHandle(p, ret) ==
    /\ nHandle < MaxHandle
    /\ canLockBegin(mu)
    /\ \E pattern \in scen.patterns, hsel \in scen.handlers,
          methods \in scen.methodLists :
          cur' = [cur EXCEPT ![p] =
                     [pattern |-> pattern,
                      handler |-> IF hsel = "new" THEN nHandle + 1 ELSE nil,
                      methods |-> methods, ms |-> <<>>, host |-> <<>>,
                      path |-> <<>>, endsInSlash |-> FALSE, panicked |-> FALSE,
                      i |-> 2, before |-> {}, ret |-> ret]]
    /\ mu' = lockBegin(mu, p)
    /\ pc' = [pc EXCEPT ![p] = "lockWait"]
    /\ nHandle' = nHandle + 1
    /\ UNCHANGED <<routes, registered, notFoundHandler, last, scen, done>>

\* A goroutine calls Handle.
HCall == \E p \in Registrars : pc[p] = "idle" /\ BeginHandle(p, "idle")

\* m.mu.Lock() returns.
HAcquire ==
    \E p \in Procs :
       /\ pc[p] = "lockWait" /\ canLockAcquire(mu, p)
       /\ mu' = lockAcquire(mu)
       /\ pc' = [pc EXCEPT ![p] = "check"]
       /\ cur' = [cur EXCEPT ![p].before = slotHandlers(routes)]
       /\ UNCHANGED <<routes, registered, notFoundHandler, nHandle, last, scen, done>>

\* The empty pattern, split, endsInSlash, Trim and the default methods.
HCheck ==
    \E p \in Procs :
       /\ pc[p] = "check"
       /\ IF cur[p].pattern = <<>> \/ splitPanics(cur[p].pattern)
          THEN /\ cur' = [cur EXCEPT ![p].panicked = TRUE]
               /\ pc' = [pc EXCEPT ![p] = "unlock"]
          ELSE LET hp == split(cur[p].pattern)
               IN /\ cur' = [cur EXCEPT
                                ![p].host = hp.host,
                                ![p].path = Trim(hp.path, "/"),
                                ![p].endsInSlash = hp.path[Len(hp.path)] = "/",
                                ![p].ms = IF Len(cur[p].methods) = 0
                                          THEN << <<>> >> ELSE cur[p].methods]
                  /\ pc' = [pc EXCEPT ![p] = "lookup"]
       /\ UNCHANGED <<routes, registered, notFoundHandler, nHandle, last, scen,
                      mu, done>>

\* r := m.registered[key]; if r == nil { newRoute, append, register }
HLookup ==
    \E p \in Procs :
       /\ pc[p] = "lookup"
       /\ LET st == lookupOrCreate([routes |-> routes, registered |-> registered],
                                   Head(cur[p].ms), cur[p].host, cur[p].path)
          IN routes' = st.routes /\ registered' = st.registered
       /\ pc' = [pc EXCEPT ![p] = "set"]
       /\ UNCHANGED <<notFoundHandler, nHandle, last, scen, mu, cur, done>>

\* r.slashHandler = handler or r.nonSlashHandler = handler, and the next
\* method.
HSet ==
    \E p \in Procs :
       /\ pc[p] = "set"
       /\ LET st == setSlot([routes |-> routes, registered |-> registered],
                            Head(cur[p].ms), cur[p].host, cur[p].path,
                            cur[p].endsInSlash, cur[p].handler)
          IN routes' = st.routes
       /\ cur' = [cur EXCEPT ![p].ms = Tail(@)]
       /\ pc' = [pc EXCEPT ![p] = IF Tail(cur[p].ms) = <<>> THEN "sort"
                                  ELSE "lookup"]
       /\ UNCHANGED <<registered, notFoundHandler, nHandle, last, scen, mu, done>>

\* sort.Sort begins: the pass of gap 6, where the build makes one.
HSort ==
    \E p \in Procs :
       /\ pc[p] = "sort"
       /\ LET r == IF scen.build = "quickSort" /\ Len(routes) >= 7
                   THEN shellPass(routes, 7)
                   ELSE [routes |-> routes, panicked |-> FALSE]
          IN /\ routes' = r.routes
             /\ cur' = [cur EXCEPT ![p].panicked = r.panicked, ![p].i = 2]
             /\ pc' = [pc EXCEPT ![p] = IF r.panicked THEN "unlock" ELSE "insert"]
       /\ UNCHANGED <<registered, notFoundHandler, nHandle, last, scen, mu, done>>

\* One turn of the insertion sort's outer loop, or its end.
HInsert ==
    \E p \in Procs :
       /\ pc[p] = "insert"
       /\ IF cur[p].i > Len(routes)
          THEN /\ pc' = [pc EXCEPT ![p] = "unlock"]
               /\ UNCHANGED <<routes, cur>>
          ELSE LET r == insertInner(routes, cur[p].i)
               IN /\ routes' = r.routes
                  /\ cur' = [cur EXCEPT ![p].panicked = r.panicked,
                                        ![p].i = @ + 1]
                  /\ pc' = [pc EXCEPT ![p] = IF r.panicked THEN "unlock"
                                             ELSE "insert"]
       /\ UNCHANGED <<registered, notFoundHandler, nHandle, last, scen, mu, done>>

\* The deferred m.mu.Unlock(), on return and on panic.
HUnlock ==
    \E p \in Procs :
       /\ pc[p] = "unlock"
       /\ mu' = unlock(mu)
       /\ pc' = [pc EXCEPT ![p] = cur[p].ret]
       /\ last' = [op  |-> "Handle",
                   arg |-> [pattern |-> cur[p].pattern, handler |-> cur[p].handler,
                            methods |-> cur[p].methods],
                   out |-> [panicked |-> cur[p].panicked,
                            replaced |-> (cur[p].before \ slotHandlers(routes))
                                            \ {nil}]]
       /\ done' = Append(done, [pattern |-> cur[p].pattern,
                                handler |-> cur[p].handler,
                                methods |-> cur[p].methods])
       /\ UNCHANGED <<routes, registered, notFoundHandler, nHandle, scen, cur>>

\* m.mu.RLock() of ServeHTTP, for a request.
SRLock ==
    \E p \in Servers :
       /\ pc[p] = "idle" /\ canRLock(mu)
       /\ \E req \in scen.requests : cur' = [cur EXCEPT ![p] = req]
       /\ mu' = rLock(mu, p)
       /\ pc' = [pc EXCEPT ![p] = "serve"]
       /\ UNCHANGED <<routes, registered, notFoundHandler, nHandle, last, scen, done>>

\* The request-target, the redirect, match and the response; the handler or
\* the hook, if one is invoked, begins to run.
SServe ==
    \E p \in Servers :
       /\ pc[p] = "serve"
       /\ \E out \in serve(routes, notFoundHandler, cur[p]) :
             /\ last' = [op |-> "ServeHTTP", arg |-> cur[p], out |-> out]
             /\ pc' = [pc EXCEPT ![p] = IF out.kind \in {"handler", "hook"}
                                        THEN "handler" ELSE "return"]
       /\ routes' = routesAfterServe(routes, cur[p])
       /\ UNCHANGED <<registered, notFoundHandler, nHandle, scen, mu, cur, done>>

\* The handler returns.
SHandlerReturns ==
    \E p \in Servers :
       /\ pc[p] = "handler"
       /\ pc' = [pc EXCEPT ![p] = "return"]
       /\ UNCHANGED <<routes, registered, notFoundHandler, nHandle, last, scen,
                      mu, cur, done>>

\* The handler calls Handle on the Muxer that serves it.
SHandlerCallsHandle ==
    \E p \in Servers : pc[p] = "handler" /\ BeginHandle(p, "handler")

\* The deferred m.mu.RUnlock(), on return and on panic.
SReturn ==
    \E p \in Servers :
       /\ pc[p] = "return"
       /\ mu' = rUnlock(mu, p)
       /\ pc' = [pc EXCEPT ![p] = "idle"]
       /\ UNCHANGED <<routes, registered, notFoundHandler, nHandle, last, scen,
                      cur, done>>

InitConc ==
    /\ routes = <<>>
    /\ registered = {}
    /\ notFoundHandler = nil
    /\ nHandle = 0
    /\ last = [op |-> "NewMuxer", arg |-> <<>>, out |-> NoOutcome]
    /\ scen = ScenConc
    /\ mu = Free
    /\ pc = [p \in Procs |-> "idle"]
    /\ cur = [p \in Procs |-> <<>>]
    /\ done = <<>>

NextConc ==
    \/ HCall \/ HAcquire \/ HCheck \/ HLookup \/ HSet \/ HSort \/ HInsert
    \/ HUnlock
    \/ SRLock \/ SServe \/ SHandlerReturns \/ SHandlerCallsHandle \/ SReturn

SpecConc == InitConc /\ [][NextConc]_vars

\* ------------------------------------------------------------------ claims

\* What the claims say of a request and a route, stated on the request's
\* segments, without the walk of match.
Served     == last.op = "ServeHTTP"
Req        == last.arg
Out        == last.out
Dispatched == Served /\ Out.kind = "handler"
Sel        == routes[Out.route]
Handled    == last.op = "Handle"

Canonical(req) == ~req.star /\ req.path # <<>> /\ cleanPath(req.path) = req.path

\* The request reached match and match returned.
Matched == Served /\ Out.matched /\ Out.kind # "panic"

ReqSegs(path)     == Split(Trim(path, "/"), "/")
EndsInSlash(path) == path[Len(path)] = "/"

IsParam(seg) == seg # <<>> /\ seg[1] = ":"

\* Every segment of r is a parameter or equals the request's segment there.
ShapeMatches(r, path) ==
    LET segs == ReqSegs(path)
    IN /\ r.len <= Len(segs)
       /\ \A i \in 1..r.len : IsParam(r.segments[i]) \/ r.segments[i] = segs[i]

\* The slot the request needs of r: the slash-handler of a shorter route,
\* else the one that corresponds to the request's trailing slash.
NeededHandler(r, path) ==
    IF r.len < Len(ReqSegs(path)) \/ EndsInSlash(path)
    THEN r.slashHandler ELSE r.nonSlashHandler

\* r matches the request path and has the handler slot the request needs.
Eligible(r, path) == ShapeMatches(r, path) /\ NeededHandler(r, path) # nil

Accepts(r, method) == r.method = <<>> \/ r.method = method

\* The indexes of the routes that could serve the request.
Serving(rs, req) ==
    {i \in 1..Len(rs) : Eligible(rs[i], req.path) /\ Accepts(rs[i], req.method)}

\* a is more specific than b, of the same length: at the leftmost index
\* where one is static and the other a parameter, a is static.
MoreSpecific(a, b) ==
    /\ a.len = b.len
    /\ \E i \in 1..a.len :
          /\ ~IsParam(a.segments[i]) /\ IsParam(b.segments[i])
          /\ \A k \in 1..(i-1) : IsParam(a.segments[k]) <=> IsParam(b.segments[k])

\* C1: of two routes of the same length that both match the request path,
\* accept its method and have the slot it needs, the request is never
\* dispatched to the less specific one, whatever the order of registration.
C1_MostSpecificWins ==
    Dispatched =>
        ~ \E j \in Serving(routes, Req) : MoreSpecific(routes[j], Sel)

\* C1 where no registered route has an empty inner segment (no sort panicked).
C1_SortedCase ==
    (Dispatched /\ \A i \in 1..Len(routes) : ~priorityPanics(routes[i])) =>
        ~ \E j \in Serving(routes, Req) : MoreSpecific(routes[j], Sel)

\* The shorter routes with a slash-handler whose segments match the leading
\* segments of the request.
CatchAlls(rs, req) ==
    {i \in 1..Len(rs) : /\ rs[i].len < Len(ReqSegs(req.path))
                        /\ rs[i].slashHandler # nil
                        /\ ShapeMatches(rs[i], req.path)}

\* C2 as stated: a shorter route R with a slash-handler is selected for every
\* request whose leading segments match it, unless a longer route matches
\* the path, has the needed slot and accepts the method; then that longer
\* route is selected.
C2_LongerAlwaysWins ==
    Matched =>
        \A i \in CatchAlls(routes, Req) :
           LET longer == {j \in Serving(routes, Req) : routes[j].len > routes[i].len}
           IN /\ Dispatched
              /\ IF longer = {} THEN Out.route = i /\ Out.handler = routes[i].slashHandler
                 ELSE Out.route \in longer

\* C2 as amended: a shorter route R with a slash-handler whose segments match
\* the leading segments of the request and which accepts the method is
\* selected, through its slash-handler, unless another route that matches
\* the path, has the needed slot and accepts the method stands before R in
\* the route list; then the first such route is selected.
C2_FirstInListWins ==
    Matched =>
        \A i \in CatchAlls(routes, Req) :
           Accepts(routes[i], Req.method) =>
              /\ Dispatched
              /\ Out.route \in Serving(routes, Req)
              /\ \A j \in Serving(routes, Req) : Out.route <= j
              /\ Out.route = i => Out.handler = routes[i].slashHandler

\* A shorter route with a slash-handler served a request that a longer
\* route, standing after it in the list, matches too.
C2_Witness ==
    /\ Dispatched
    /\ Out.route \in CatchAlls(routes, Req)
    /\ \E j \in Serving(routes, Req) : routes[j].len > Sel.len

\* C3: a route with as many segments as the request path is selected only
\* through the slot of the request's trailing-slash state, and when no
\* route matches with the slot the request needs the outcome is not-found.
C3_ExactLengthSlot ==
    Matched =>
        /\ (Dispatched /\ Sel.len = Len(ReqSegs(Req.path))) =>
              Out.handler = IF EndsInSlash(Req.path) THEN Sel.slashHandler
                            ELSE Sel.nonSlashHandler
        /\ (\A i \in 1..Len(routes) : ~Eligible(routes[i], Req.path)) =>
              /\ ~Dispatched
              /\ ~Out.methodMismatch
              /\ Out.kind = "default" => Out.status = StatusNotFound

\* A request with a trailing slash found only an exact-length route whose
\* slash-handler is not set, and was answered 404.
C3_Witness ==
    /\ Matched
    /\ EndsInSlash(Req.path)
    /\ Out.status = StatusNotFound
    /\ \E i \in 1..Len(routes) :
          /\ routes[i].len = Len(ReqSegs(Req.path))
          /\ ShapeMatches(routes[i], Req.path)
          /\ routes[i].nonSlashHandler # nil
          /\ routes[i].slashHandler = nil

\* C4: for a canonical request the outcome is exactly one of: a handler,
\* when a surviving candidate accepts the method; method-mismatch (405),
\* when candidates survive and none accepts it; not-found (404), when none
\* survives.
C4_ThreeOutcomes ==
    (Served /\ Canonical(Req)) =>
        LET surviving == {i \in 1..Len(routes) : Eligible(routes[i], Req.path)}
            accepting == Serving(routes, Req)
            mismatch  == /\ Out.kind \in {"default", "hook"}
                         /\ Out.methodMismatch
                         /\ Out.kind = "default" => Out.status = StatusMethodNotAllowed
            notFound  == /\ Out.kind \in {"default", "hook"}
                         /\ ~Out.methodMismatch
                         /\ Out.kind = "default" => Out.status = StatusNotFound
        IN /\ Out.kind \in {"handler", "default", "hook"}
           /\ Dispatched <=> accepting # {}
           /\ mismatch <=> (surviving # {} /\ accepting = {})
           /\ notFound <=> surviving = {}

\* A request was answered 405: a route matches its path, none accepts its
\* method.
C4_Witness ==
    /\ Served /\ Canonical(Req)
    /\ Out.status = StatusMethodNotAllowed
    /\ \E i \in 1..Len(routes) : Eligible(routes[i], Req.path)

Range(f) == {f[i] : i \in DOMAIN f}

\* The request is for the pattern: it has the pattern's number of segments
\* and trailing slash, and each of its segments equals the pattern's or
\* stands at a parameter of it.
IsFor(req, pattern) ==
    /\ pattern # <<>> /\ pattern[1] = "/"
    /\ ~req.star /\ req.path # <<>> /\ ~needsRedirect(req)
    /\ Len(ReqSegs(req.path)) = Len(ReqSegs(pattern))
    /\ EndsInSlash(req.path) = EndsInSlash(pattern)
    /\ \A i \in 1..Len(ReqSegs(pattern)) :
          IsParam(ReqSegs(pattern)[i]) \/ ReqSegs(pattern)[i] = ReqSegs(req.path)[i]

\* The routes that hold the handler h in a slot.
Holding(rs, h) ==
    {i \in 1..Len(rs) : rs[i].slashHandler = h \/ rs[i].nonSlashHandler = h}

\* C5: after Handle(p, h, m1..mk) the handler h is never invoked for a
\* request whose method is not in the list, and it is dispatched for a
\* request for p with a method of the list (any method when the list is
\* empty) that no route registered by another call could serve.
C5_MethodsOfHandle ==
    (Handled /\ ~last.out.panicked /\ last.arg.handler # nil) =>
        \A req \in scen.requests :
           (~req.star /\ req.path # <<>> /\ ~needsRedirect(req)) =>
              \A o \in serve(routes, notFoundHandler, req) :
                 /\ (/\ last.arg.methods # <<>>
                     /\ req.method \notin Range(last.arg.methods))
                       => o.handler # last.arg.handler
                 /\ (/\ IsFor(req, last.arg.pattern)
                     /\ \/ last.arg.methods = <<>>
                        \/ req.method \in Range(last.arg.methods)
                     /\ Serving(routes, req) \subseteq Holding(routes, last.arg.handler))
                       => o.handler = last.arg.handler

\* C5 where the keys of the call met no route of another method or path: the
\* routes that hold h have a method of the list and the segments of p.
C5_NoCollisionCase ==
    (/\ Handled /\ last.arg.pattern # <<>> /\ ~splitPanics(last.arg.pattern)
     /\ \A i \in Holding(routes, last.arg.handler) :
           /\ routes[i].segments =
                 Split(Trim(split(last.arg.pattern).path, "/"), "/")
           /\ \/ routes[i].method \in Range(last.arg.methods)
              \/ last.arg.methods = <<>> /\ routes[i].method = <<>>)
    => C5_MethodsOfHandle

\* The indexes of the parameter segments of a route.
ParamIndexes(r) == {i \in 1..r.len : IsParam(r.segments[i])}

\* C6 as stated: the binding maps, for every parameter segment of the
\* selected route, its name to the request's segment at that index, and
\* binds no other name.
C6_EveryIndexBound ==
    Dispatched =>
        /\ DOMAIN Out.args = {Tail(Sel.segments[i]) : i \in ParamIndexes(Sel)}
        /\ \A i \in ParamIndexes(Sel) :
              Out.args[Tail(Sel.segments[i])] = ReqSegs(Req.path)[i]

\* C6 as amended: the binding holds the names of the parameter segments of
\* the selected route and no other; a name used at one index is bound to
\* the request's segment at that index, a name used at several indexes to
\* the request's segment at one of them.
C6_EveryNameBound ==
    Dispatched =>
        /\ DOMAIN Out.args = {Tail(Sel.segments[i]) : i \in ParamIndexes(Sel)}
        /\ \A n \in DOMAIN Out.args :
              \E i \in ParamIndexes(Sel) :
                 Tail(Sel.segments[i]) = n /\ Out.args[n] = ReqSegs(Req.path)[i]
        /\ \A i \in ParamIndexes(Sel) :
              (\A k \in ParamIndexes(Sel) :
                  Sel.segments[k] = Sel.segments[i] => k = i)
                 => Out.args[Tail(Sel.segments[i])] = ReqSegs(Req.path)[i]

\* A shorter route with a parameter served a longer path and bound it.
C6_Witness ==
    /\ Dispatched
    /\ Sel.len < Len(ReqSegs(Req.path))
    /\ ParamIndexes(Sel) # {}
    /\ \A i \in ParamIndexes(Sel) :
          Out.args[Tail(Sel.segments[i])] = ReqSegs(Req.path)[i]

\* A step of Handle that repeats the pattern and the methods of the Handle
\* call before it, which had a handler.
ReRegistration ==
    /\ Handled /\ last'.op = "Handle" /\ nHandle' = nHandle + 1
    /\ last'.arg.pattern = last.arg.pattern
    /\ last'.arg.methods = last.arg.methods
    /\ last.arg.handler # nil

\* The handler of the call before a re-registration is held by no slot and
\* served to no request after it, and no route was added.
Replaced ==
    ReRegistration =>
        /\ Len(routes') = Len(routes)
        /\ last.arg.handler \notin slotHandlers(routes')
        /\ \A req \in scen.requests :
              \A o \in serve(routes', notFoundHandler', req) :
                 o.handler # last.arg.handler

\* A handler that no slot holds is held by none later (a call brings its own
\* handler only), and a request is served by a handler that a slot holds.
NeverBack ==
    /\ slotHandlers(routes') \subseteq slotHandlers(routes) \cup {nHandle', nil}
    /\ (last'.op = "ServeHTTP" /\ last'.out.kind = "handler") =>
          last'.out.handler \in slotHandlers(routes') \ {nil}

\* C7 as stated: the registry holds at most one route per (path, method)
\* tuple; re-registering a tuple adds no route, and the handler registered
\* before is invoked by no later request.
C7_OneRoutePerPathAndMethod ==
    [][/\ \A i, j \in 1..Len(routes') :
             (routes'[i].segments = routes'[j].segments
                /\ routes'[i].method = routes'[j].method) => i = j
       /\ Replaced
       /\ NeverBack]_vars

\* C7 as amended: the registry holds at most one route per registration key
\* (method, host and path concatenated), so two patterns that differ in
\* their host only have two routes of the same path and method;
\* re-registering a pattern with the same methods adds no route, and the
\* handler registered before is invoked by no later request.
C7_OneRoutePerKey ==
    [][/\ \A i, j \in 1..Len(routes') : routes'[i].key = routes'[j].key => i = j
       /\ registered' = {routes'[i].key : i \in 1..Len(routes')}
       /\ Replaced
       /\ NeverBack]_vars

\* A pattern was registered twice with a handler: one route holds the second.
C7_Witness ==
    /\ Handled /\ nHandle = 2
    /\ last.arg.handler = 2
    /\ last.out.replaced = {1}
    /\ Len(routes) = 1

\* A step of Handle with the nil handler that cleared a slot which held a
\* handler.
ClearStep ==
    /\ last'.op = "Handle" /\ nHandle' = nHandle + 1
    /\ last'.arg.handler = nil
    /\ last'.out.replaced # {}

\* Every route of the registry is a route of it after the step.
StaysRegistered ==
    /\ registered \subseteq registered'
    /\ \A i \in 1..Len(routes) :
          \E j \in 1..Len(routes') :
             /\ routes'[j].key = routes[i].key
             /\ routes'[j].segments = routes[i].segments
             /\ routes'[j].method = routes[i].method

\* The requests that were dispatched to a slot the step cleared.
WasServedByCleared(req) ==
    /\ ~req.star /\ req.path # <<>> /\ ~needsRedirect(req)
    /\ \E o \in serve(routes, notFoundHandler, req) :
          o.handler \in last'.out.replaced

\* After the step the request is dispatched to the first route of the list
\* that matches the path, has the needed slot and accepts the method.
FallsBack(req) ==
    \A o \in serve(routes', notFoundHandler', req) :
       /\ o.kind = "handler"
       /\ o.route \in Serving(routes', req)
       /\ \A j \in Serving(routes', req) : o.route <= j
       /\ o.handler \notin last'.out.replaced

\* C8 as stated: the route whose slot was cleared stays in the registry; a
\* request that was dispatched to the cleared slot is dispatched to the next
\* route that matches the path, has the needed slot and accepts the method,
\* and is answered not-found (404, not 405) when there is none.
C8_FallbackOr404 ==
    [][ClearStep =>
         /\ StaysRegistered
         /\ \A req \in scen.requests :
               WasServedByCleared(req) =>
                  IF Serving(routes', req) # {} THEN FallsBack(req)
                  ELSE \A o \in serve(routes', notFoundHandler', req) :
                          /\ o.kind \in {"default", "hook"}
                          /\ ~o.methodMismatch
                          /\ o.kind = "default" => o.status = StatusNotFound]_vars

\* C8 as amended: the route whose slot was cleared stays in the registry; a
\* request that was dispatched to the cleared slot is dispatched to the next
\* route of the list that matches the path, has the needed slot and accepts
\* the method; when there is none it is answered method-mismatch (405) if
\* some route matches the path and has the needed slot, and not-found
\* (404) if none does.
C8_FallbackOr405Or404 ==
    [][ClearStep =>
         /\ StaysRegistered
         /\ \A req \in scen.requests :
               WasServedByCleared(req) =>
                  IF Serving(routes', req) # {} THEN FallsBack(req)
                  ELSE \A o \in serve(routes', notFoundHandler', req) :
                          LET shaped == \E i \in 1..Len(routes') :
                                           Eligible(routes'[i], req.path)
                          IN /\ o.kind \in {"default", "hook"}
                             /\ o.methodMismatch <=> shaped
                             /\ o.kind = "default" =>
                                   o.status = IF shaped THEN StatusMethodNotAllowed
                                              ELSE StatusNotFound]_vars

\* The slot of /a/b was cleared, and GET /a/b is served by the shorter /a/.
C8_Witness ==
    /\ Handled /\ last.arg.handler = nil /\ last.out.replaced # {}
    /\ last.arg.pattern = pAB
    /\ \E i \in 1..Len(routes) :
          routes[i].segments = ReqSegs(pAB) /\ routes[i].nonSlashHandler = nil
    /\ \A o \in serve(routes, notFoundHandler,
                      [method |-> GET, path |-> pAB, star |-> FALSE]) :
          o.kind = "handler" /\ routes[o.route].segments = ReqSegs(pA)

AllSlashes(path) == path # <<>> /\ \A i \in 1..Len(path) : path[i] = "/"

\* The root route: the one the slash pattern makes.
IsRoot(r) == r.segments = << <<>> >>

\* C9: the root pattern is no catch-all: the handler that a Handle call
\* registered for "/" is never selected for a request with one or more
\* non-empty path segments (the claim's "only for the path /" says more).
C9_RootNoCatchAll ==
    (Handled /\ last.arg.pattern = pRoot /\ last.arg.handler # nil
       /\ ~last.out.panicked) =>
        \A req \in scen.requests :
           (~req.star /\ req.path # <<>>
              /\ \E i \in 1..Len(ReqSegs(req.path)) : ReqSegs(req.path)[i] # <<>>) =>
               \A o \in serve(routes, notFoundHandler, req) :
                  o.handler # last.arg.handler

\* The root route itself is no catch-all. It is selected only for a
\* request whose path has no segment but the empty one, that is a path of
\* slashes only: exactly "/" unless the method is CONNECT, whose path is
\* matched as it came ("//" too); it is never selected for a request with
\* a non-empty segment.
C9_RootOnlyForSlashes ==
    (Dispatched /\ IsRoot(Sel)) =>
        /\ AllSlashes(Req.path)
        /\ ReqSegs(Req.path) = << <<>> >>
        /\ Req.method # CONNECT => Req.path = pRoot

\* The root route served CONNECT "//".
C9_Witness ==
    /\ Dispatched /\ IsRoot(Sel)
    /\ Req.method = CONNECT /\ Req.path = pSlSl

\* With the root route registered, a path of two segments was not found.
C9_WitnessNotFound ==
    /\ Served /\ Req.path = pGETA /\ Out.status = StatusNotFound
    /\ \E i \in 1..Len(routes) : IsRoot(routes[i]) /\ routes[i].slashHandler # nil

\* C10 as stated: a request whose method is not CONNECT and whose path is
\* not canonical is answered 301 to the canonical path, with no matching, no
\* handler and no hook; a CONNECT request is never redirected and is matched
\* on its raw path.
C10_RedirectFirst ==
    Served =>
        /\ (Req.method # CONNECT /\ cleanPath(Req.path) # Req.path) =>
              /\ Out.kind = "redirect" /\ Out.status = StatusMovedPermanently
              /\ Out.location = cleanPath(Req.path)
              /\ ~Out.matched /\ Out.handler = nil /\ Out.hook = nil
        /\ Req.method = CONNECT =>
              /\ Out.kind # "redirect"
              /\ Out.matched

\* C10 as amended: the same of every request whose request-target is not
\* "*" (that one is answered 400 before the path is looked at).
C10_RedirectFirstButStar ==
    (Served /\ ~Req.star) =>
        /\ (Req.method # CONNECT /\ cleanPath(Req.path) # Req.path) =>
              /\ Out.kind = "redirect" /\ Out.status = StatusMovedPermanently
              /\ Out.location = cleanPath(Req.path)
              /\ ~Out.matched /\ Out.handler = nil /\ Out.hook = nil
        /\ Req.method = CONNECT =>
              /\ Out.kind # "redirect"
              /\ Out.matched
              /\ Dispatched => Out.route \in Serving(routes, Req)
              /\ (Req.path # <<>> /\ Serving(routes, Req) = {}) => ~Dispatched

\* A path that is not canonical was redirected, with a route that its
\* canonical form matches and a hook registered.
C10_Witness ==
    /\ Served /\ Out.kind = "redirect"
    /\ Req.path = pAUpA /\ Out.location = pA
    /\ notFoundHandler # nil
    /\ \E i \in 1..Len(routes) : routes[i].nonSlashHandler # nil

\* C11: every ServeHTTP call ends with one response: the 400 of the
\* request-target "*", a redirect, the handler's, the hook's or the default
\* 404/405; no call ends in a panic without a response.
C11_AlwaysResponds ==
    Served =>
        /\ Out.kind \in {"badRequest", "redirect", "handler", "hook", "default"}
        /\ Out.kind # "panic"

\* A ServeHTTP step whose match selected no handler.
NoneSelected ==
    /\ last'.op = "ServeHTTP"
    /\ last'.out.matched
    /\ last'.out.kind \notin {"panic", "handler"}

\* Some route matches the path of the request with the slot it needs.
PathMatches(rs, req) == \E i \in 1..Len(rs) : Eligible(rs[i], req.path)

\* C12: when no handler is selected, the hook registered last with NotFound
\* is invoked, once, with methodMismatch true exactly when a route matches
\* the path (and none accepts the method), and no default response is
\* written; with no hook the response is 405 in that case and 404 else.
C12_HookOrDefault ==
    [][/\ last'.op = "NotFound" => notFoundHandler' = last'.arg
       /\ last'.op # "NotFound" => notFoundHandler' = notFoundHandler
       /\ NoneSelected =>
             /\ Serving(routes, last'.arg) = {}
             /\ IF notFoundHandler # nil
                THEN /\ last'.out.kind = "hook"
                     /\ last'.out.hook = notFoundHandler
                     /\ last'.out.methodMismatch = PathMatches(routes, last'.arg)
                     /\ last'.out.status = NoOutcome.status
                ELSE /\ last'.out.kind = "default"
                     /\ last'.out.hook = nil
                     /\ last'.out.status =
                           IF PathMatches(routes, last'.arg)
                           THEN StatusMethodNotAllowed ELSE StatusNotFound]_vars

\* No hook is registered and a request whose path matches a route of
\* another method was answered 405.
C12_Witness ==
    /\ Served /\ Out.kind = "default" /\ notFoundHandler = nil
    /\ Out.status = StatusMethodNotAllowed
    /\ PathMatches(routes, Req) /\ Serving(routes, Req) = {}

\* The second hook was invoked with methodMismatch true.
C12_WitnessHook ==
    /\ Served /\ Out.kind = "hook" /\ Out.hook = 2 /\ Out.methodMismatch

\* The pattern has a parameter segment with no name after the colon.
HasEmptyParamName(pattern) ==
    \E i \in 1..Len(pattern) :
       /\ pattern[i] = ":"
       /\ i > 1 /\ pattern[i-1] = "/"
       /\ i = Len(pattern) \/ pattern[i+1] = "/"

HasSlash(pattern) == \E i \in 1..Len(pattern) : pattern[i] = "/"

\* A step of Handle(pattern, ...).
HandleStep(pattern) ==
    /\ last'.op = "Handle" /\ nHandle' = nHandle + 1
    /\ last'.arg.pattern = pattern

\* The registration keys of a Handle call.
KeysOf(arg) ==
    LET hp == split(arg.pattern)
        ms == IF arg.methods = <<>> THEN {<<>>} ELSE Range(arg.methods)
    IN {m \o hp.host \o Trim(hp.path, "/") : m \in ms}

\* C15 as stated: Handle panics for the empty pattern, for every pattern
\* that does not begin with "/" and for every pattern with a parameter
\* segment of no name, and registers no route for it.
C15_MalformedRejected ==
    [][\A p \in scen.patterns :
          (/\ HandleStep(p)
           /\ \/ p = <<>>
              \/ p[1] # "/"
              \/ HasEmptyParamName(p))
             => /\ last'.out.panicked
                /\ routes' = routes /\ registered' = registered]_vars

\* C15 as amended: Handle panics for the empty pattern and for every
\* pattern that has no "/", and registers no route for it; a pattern that
\* has a "/" is registered (every key of the call is in the registry after
\* it), also when it begins with a host and when a parameter has no name.
C15_NoSlashRejected ==
    [][\A p \in scen.patterns :
          HandleStep(p) =>
             IF p = <<>> \/ ~HasSlash(p)
             THEN /\ last'.out.panicked
                  /\ routes' = routes /\ registered' = registered
             ELSE /\ KeysOf(last'.arg) \subseteq registered'
                  /\ \A k \in KeysOf(last'.arg) :
                        \E i \in 1..Len(routes') : routes'[i].key = k]_vars

\* A pattern without a slash was refused with routes in the registry.
C15_Witness ==
    /\ Handled /\ last.arg.pattern = pNoSl
    /\ last.out.panicked
    /\ routes # <<>>

\* A pattern with a host was registered.
C15_WitnessHost ==
    /\ Handled /\ last.arg.pattern = pHostB /\ ~last.out.panicked
    /\ \E i \in 1..Len(routes) : routes[i].key = <<"a", "b">>

\* The candidates of a request, the walk's stages and its result.
CandidatesOf(req) ==
    possibleRoutes(routes, Len(ReqSegs(req.path)), EndsInSlash(req.path))

StagesOf(req) ==
    walkStages(routes,
               [candidates |-> CandidatesOf(req),
                candLen    |-> Len(CandidatesOf(req)),
                exit       |-> Len(ReqSegs(req.path)) + 1],
               ReqSegs(req.path), Len(ReqSegs(req.path)))

WalkedOf(req) == match(routes, req.method, req.path).walked

\* The route matches the segments position by position.
PositionsMatch(r, segs) ==
    \A i \in 1..r.len : IsParam(r.segments[i]) \/ r.segments[i] = segs[i]

\* C18: the walk leaves exactly the candidates that match position by
\* position; it is left early only when no candidate survives; and at every
\* turn the count is the number of candidates not eliminated.
C18_WalkExact ==
    \A req \in scen.requests :
       (~req.star /\ req.path # <<>>) =>
          LET c    == CandidatesOf(req)
              w    == WalkedOf(req)
              segs == ReqSegs(req.path)
          IN /\ Len(w.candidates) = Len(c)
             /\ \A k \in 1..Len(c) :
                   /\ w.candidates[k] \in {0, c[k]}
                   /\ w.candidates[k] # 0 <=> PositionsMatch(routes[c[k]], segs)
             /\ w.exit > 1 => \A k \in 1..Len(c) : w.candidates[k] = 0
             /\ w \in StagesOf(req)
             /\ \A st \in StagesOf(req) :
                   st.candLen =
                      Cardinality({k \in 1..Len(c) : st.candidates[k] # 0})

\* A walk over two segments eliminated a candidate and kept another.
C18_Witness ==
    /\ Served /\ Out.matched /\ Out.kind # "panic"
    /\ Len(ReqSegs(Req.path)) >= 2
    /\ WalkedOf(Req).exit = 1
    /\ \E k \in 1..Len(CandidatesOf(Req)) : WalkedOf(Req).candidates[k] = 0
    /\ \E k \in 1..Len(CandidatesOf(Req)) : WalkedOf(Req).candidates[k] # 0

\* A walk was left before index 0 with every candidate eliminated.
C18_WitnessEarlyExit ==
    /\ Served /\ Out.matched /\ Out.kind # "panic"
    /\ CandidatesOf(Req) # <<>>
    /\ WalkedOf(Req).exit > 1

\* The route at index j of routes' is new or has a slot that it had not.
Touched(j) ==
    LET old == {i \in 1..Len(routes) : routes[i].key = routes'[j].key}
    IN \/ old = {}
       \/ \E i \in old :
             \/ routes[i].slashHandler # routes'[j].slashHandler
             \/ routes[i].nonSlashHandler # routes'[j].nonSlashHandler

\* C19: a Handle call creates or updates only the routes of its own
\* (method, path) tuples: every route it touches has the segments of its
\* pattern and a method of its list.
C19_OnlyOwnRoutes ==
    [][\A p \in scen.patterns :
          (HandleStep(p) /\ p # <<>> /\ HasSlash(p)) =>
             \A j \in 1..Len(routes') :
                Touched(j) =>
                   /\ routes'[j].segments = ReqSegs(split(p).path)
                   /\ \/ routes'[j].method \in Range(last'.arg.methods)
                      \/ last'.arg.methods = <<>> /\ routes'[j].method = <<>>]_vars

\* C20: a Handle call that panics leaves the route list and the
\* registration map as they were.
C20_FailedHandleChangesNothing ==
    [][(/\ last'.op = "Handle" /\ nHandle' = nHandle + 1
        /\ last'.out.panicked)
          => routes' = routes /\ registered' = registered]_vars

\* C17: a ServeHTTP call, whatever its outcome, leaves the route list
\* (content and order, every route's segments, method, parameters and
\* slots), the registration map and the not-found hook as they were.
C17_MatchingMutatesNothing ==
    [][last'.op = "ServeHTTP" =>
          /\ routes' = routes
          /\ registered' = registered
          /\ notFoundHandler' = notFoundHandler]_vars

\* A request was answered after its walk eliminated a candidate, with
\* more than one route in the list.
C17_Witness ==
    /\ Served /\ Out.matched /\ Out.kind # "panic"
    /\ Len(routes) >= 2
    /\ \E k \in 1..Len(CandidatesOf(Req)) : WalkedOf(Req).candidates[k] = 0

\* The place of the route of a key in a route list.
Pos(rs, key) == CHOOSE i \in 1..Len(rs) : rs[i].key = key

\* A step of Handle that completed.
Completed ==
    /\ last'.op = "Handle" /\ nHandle' = nHandle + 1
    /\ ~last'.out.panicked

\* The list is sorted by descending priority.
Sorted(rs) ==
    \A i \in 1..Len(rs) - 1 : ~StrGreater(priority(rs[i+1]), priority(rs[i]))

\* The routes of equal priority of the list before the step stand in the
\* same order after it, and before the routes the step added.
OrderKept ==
    /\ \A i, j \in 1..Len(routes) :
          (i < j /\ priority(routes[i]) = priority(routes[j])) =>
             Pos(routes', routes[i].key) < Pos(routes', routes[j].key)
    /\ \A i \in 1..Len(routes), j \in 1..Len(routes') :
          (/\ routes'[j].key \notin registered
           /\ priority(routes[i]) = priority(routes'[j])) =>
             Pos(routes', routes[i].key) < j

\* C16: after every completed Handle call the list is sorted by descending
\* priority, and the routes of equal priority keep their order of
\* registration across the re-sort.
C16_SortedAndStable ==
    [][Completed => Sorted(routes') /\ OrderKept]_vars

\* C16 where the sort is an insertion sort: under the sort of Go 1.19 and
\* later, and under the older one as long as the list has fewer than 7
\* routes.
C16_InsertionCase ==
    [][(Completed /\ (scen.build = "pdqsort" \/ Len(routes') < 7))
          => Sorted(routes') /\ OrderKept]_vars

\* The Muxer after a sequence of Handle calls made one after the other, and
\* whether one of them panicked.
RECURSIVE applyCalls(_, _, _)
applyCalls(build, st, calls) ==
    IF calls = <<>> THEN st
    ELSE LET r == handleResult(build, st.routes, st.registered,
                               Head(calls).pattern, Head(calls).handler,
                               Head(calls).methods)
         IN applyCalls(build,
                       [routes     |-> r.routes,
                        registered |-> r.registered,
                        panicked   |-> st.panicked \/ r.panicked],
                       Tail(calls))

\* The Muxer that the Handle calls that have ended leave behind.
AfterDone ==
    applyCalls(scen.build,
               [routes |-> <<>>, registered |-> {}, panicked |-> FALSE], done)

\* The labels of Handle between Lock and Unlock.
InHandle == {"check", "lookup", "set", "sort", "insert", "unlock"}

\* A ServeHTTP call is about to match.
Matching(p) == pc[p] = "serve"

\* No Handle call stands between its Lock and its Unlock, and the Muxer is
\* the one that the calls that have ended leave behind.
Quiescent ==
    /\ \A q \in Procs : pc[q] \notin InHandle
    /\ routes = AfterDone.routes
    /\ registered = AfterDone.registered

\* Every registered key has its route and every route a handler in a slot,
\* unless a Handle call registered nil.
NoEmptyRoute ==
    \A i \in 1..Len(routes) :
       \/ routes[i].slashHandler # nil
       \/ routes[i].nonSlashHandler # nil
       \/ \E k \in 1..Len(done) : done[k].handler = nil

\* C13: whenever a ServeHTTP call matches, no Handle call is in progress, the
\* route list is the sorted result of the Handle calls that have ended, no
\* route is without a handler, and no call, Handle or ServeHTTP, has
\* panicked.
C13_ConsistentSnapshots ==
    /\ \A p \in Servers :
          Matching(p) => Quiescent /\ Sorted(routes) /\ NoEmptyRoute
    /\ (last.op = "Handle" => ~last.out.panicked)
    /\ (last.op = "ServeHTTP" => last.out.kind # "panic")

\* C13, what the lock gives: whenever a ServeHTTP call matches, no Handle
\* call is in progress and the Muxer is the one the ended calls leave
\* behind; it is sorted if none of them panicked.
C13_LockedCase ==
    \A p \in Servers :
       Matching(p) =>
          /\ Quiescent
          /\ NoEmptyRoute
          /\ ~AfterDone.panicked => Sorted(routes)

\* A ServeHTTP call matches after a Handle call has added to a Muxer that
\* held routes, while another call waits for the lock.
C13_Witness ==
    /\ \E p \in Servers : Matching(p)
    /\ \E q \in Procs : pc[q] = "lockWait"
    /\ Len(done) >= 2 /\ Len(routes) >= 3
    /\ ~AfterDone.panicked

\* The handler or the hook of a ServeHTTP call runs, or waits in a Handle
\* call of its own.
InHandler(p) ==
    \/ pc[p] = "handler"
    \/ pc[p] \in InHandle \cup {"lockWait"} /\ cur[p].ret = "handler"

\* C14: while the handler or the hook of a ServeHTTP call runs, the call
\* does not hold the read lock, so that a Handle call made meanwhile, by
\* the handler too, is not kept waiting by it.
C14_ReleasedBeforeHandler ==
    \A p \in Servers : InHandler(p) => p \notin mu.readers

\* C14, what the code does: the read lock is held from the start of
\* ServeHTTP to its return, the run of the handler included, and a Handle
\* call made by the handler never gets the lock.
C14_HeldThroughHandler ==
    \A p \in Servers :
       /\ pc[p] \in {"serve", "handler", "return"} => p \in mu.readers
       /\ InHandler(p) => p \in mu.readers /\ pc[p] \notin InHandle

\* A handler waits for the lock in a Handle call of its own.
C14_Witness ==
    \E p \in Servers :
       /\ pc[p] = "lockWait" /\ cur[p].ret = "handler"
       /\ p \in mu.readers /\ mu.w = p

\* A ServeHTTP step on a request path.
ServeStep == last'.op = "ServeHTTP" /\ ~last'.arg.star

\* The step serves the request that follows the redirect of the step
\* before it: the same method at the target of the redirect.
FollowsRedirect ==
    /\ Served /\ Out.kind = "redirect"
    /\ ServeStep
    /\ last'.arg.method = Req.method
    /\ last'.arg.path = redirectTarget(Req.path)

\* C21: for the path p of every request, cleanPath(cleanPath(p)) =
\* cleanPath(p), cleanPath(p) begins with "/", and it ends with "/" exactly
\* when p ends with "/" or cleanPath(p) is the root; and the request that
\* follows a redirect to its target is not redirected again.
C21_CleanPathIdempotent ==
    [][/\ ServeStep =>
             LET p == last'.arg.path
                 c == cleanPath(p)
             IN /\ cleanPath(c) = c
                /\ c # <<>> /\ c[1] = "/"
                /\ c[Len(c)] = "/" <=>
                      ((p # <<>> /\ p[Len(p)] = "/") \/ c = <<"/">>)
       /\ FollowsRedirect =>
             /\ last'.out.kind # "redirect"
             /\ last'.arg.path = cleanPath(Req.path)]_vars

\* A request whose path has a doubled slash and ends with a slash was
\* redirected to a path that is not the root and ends with a slash.
C21_Witness ==
    /\ Served /\ Out.kind = "redirect"
    /\ Req.path = pSlSlASl
    /\ Out.location = pASl
    /\ redirectTarget(Req.path) = pASl

\* A request at the target of a redirect, a cleaned path that ends with the
\* slash put back, reached a handler.
C21_WitnessFollowed ==
    /\ Dispatched
    /\ Req.path = pASl /\ cleanPath(pNoSlDotSl) = Req.path

\* A path with ".." and a trailing slash was redirected to the root.
C21_WitnessRoot ==
    /\ Served /\ Out.kind = "redirect"
    /\ Req.path = pAUpSl /\ Out.location = pRoot

\* A path with a character that a URL escapes was redirected: the Location
\* holds it escaped and the request that follows holds it again.
C21_WitnessEscaped ==
    /\ Served /\ Out.kind = "redirect"
    /\ Req.path = pPctDotSl
    /\ redirectLocation(Req.path) = <<"/", "%", "2", "5", "/">>
    /\ redirectTarget(Req.path) = <<"/", "%", "/">>

====
